---- MODULE Spec2Model ----
(***************************************************************************)
(* Random Knowledge Explorer (src/app.js): the application state and its   *)
(* persistence in localStorage (AppState), the article provider            *)
(* (WikipediaService) and the intent handlers of UIController, with the    *)
(* start-up sequence of RandomKnowledgeExplorer and the page's             *)
(* visibilitychange handler.                                               *)
(*                                                                         *)
(* Every provider call (one network round trip) is an await point: the     *)
(* handler that issued it is suspended in `inflight` and any other handler *)
(* may run before the response arrives.  Everything a handler does between *)
(* two await points is one atomic action (JavaScript runs to completion).  *)
(***************************************************************************)
EXTENDS Integers, Sequences, FiniteSets, Bags, TLC

(* ------------------------------ bounds --------------------------------- *)
\* Handlers suspended on a provider call at the same time.
MaxInFlight == 2
\* Readings of the wall clock (Date) that differ: 0..MaxClock.
MaxClock == 1
\* Provider calls outstanding at once in SpecIntents.
MaxIntents == 1
\* Results a search with limit 20 returns at most (the code samples from the
\* first 5, so 6 exercises the cut).
MaxResults == 6
\* Sessions started on one store (the stored count gets a second digit at 10;
\* it stays far below 2^53, where a JavaScript number stops counting by one).
MaxVisits == 11

(* --------------------------- program constants ------------------------- *)
\* fetchCategoryArticle samples from the first Math.min(5, n) results.
TopResults == 5
\* handleSearch calls searchArticles(query, 1).
SearchLimit == 1
\* fetchCategoryArticle calls searchArticles(keyword, 20).
CategoryLimit == 20

\* null where the program holds text (selectedCategory, localStorage.getItem
\* of a missing key read as text).
Null == "<null>"
\* null where the program holds a timer handle (autoFetchTimer).
NoTimer == 0
\* The value undefined of a missing property (data.pageid not supplied).
Undefined == 0
\* A property JSON.stringify left out of the text.
AbsentKey == -1

Min(a, b) == IF a < b THEN a ELSE b

(* ------------------------------ the provider --------------------------- *)
\* The articles of the provider: title |-> pageid.  "U" is a page whose
\* summary carries no pageid.
Titles == {"A", "B", "U"}
PageIdOf(title) ==
  CASE title = "A" -> 1
    [] title = "B" -> 2
    [] OTHER       -> Undefined
PageIds == {PageIdOf(t) : t \in Titles}

\* normalizeArticleData, restricted to the fields the controller reads:
\* title and pageId (pageId: data.pageid, undefined when not supplied).
normalizeArticleData(title) == [title |-> title, pageId |-> PageIdOf(title)]

\* data.extract of the summary the provider returns for a title; a text is a
\* sequence of characters, " " standing for any whitespace.  "B" comes with
\* no extract, "U" with an empty one.
Omitted == [kind |-> "omitted"]
Extract(chars) == [kind |-> "text", val |-> chars]
ExtractOf(title) ==
  CASE title = "A" -> Extract(<<"a", " ", " ", "b", "c", " ">>)
    [] title = "B" -> Omitted
    [] OTHER       -> Extract(<<>>)
\* data.extract || fallback: undefined and '' are falsy
OrElse(extract, fallback) ==
  IF extract.kind = "text" /\ extract.val # <<>> THEN extract.val ELSE fallback
\* 'No summary available.'
Placeholder ==
  <<"N", "o", " ", "s", "u", "m", "m", "a", "r", "y", " ", "a", "v", "a", "i", "l", "a", "b", "l", "e", ".">>
\* text.split(/\s+/): the pieces between the runs of whitespace, empty pieces
\* at the ends included
RECURSIVE splitFrom(_, _, _, _)
splitFrom(text, i, piece, afterSpace) ==
  IF i > Len(text) THEN <<piece>>
  ELSE IF text[i] = " "
       THEN IF afterSpace THEN splitFrom(text, i + 1, piece, TRUE)
            ELSE <<piece>> \o splitFrom(text, i + 1, <<>>, TRUE)
       ELSE splitFrom(text, i + 1, Append(piece, text[i]), FALSE)
split(text) == splitFrom(text, 1, <<>>, FALSE)
\* estimateWordCount: text.split(/\s+/).filter(word => word.length > 0).length
estimateWordCount(text) == Len(SelectSeq(split(text), LAMBDA word : Len(word) > 0))
\* estimateReadingTime: Math.ceil(words / wordsPerMinute)
wordsPerMinute == 200
MathCeil(num, den) == -((-num) \div den)
estimateReadingTime(text) == MathCeil(estimateWordCount(text), wordsPerMinute)
\* normalizeArticleData, the fields derived from data.extract
normalizeSummary(extract) ==
  [summary |-> OrElse(extract, Placeholder),
   wordCount |-> estimateWordCount(OrElse(extract, <<>>)),
   readingTime |-> estimateReadingTime(OrElse(extract, <<>>))]
Articles == {normalizeArticleData(t) : t \in Titles}

\* The keys of CONFIG.CATEGORIES offered by the category buttons.
Categories == {"history", "science"}

\* The search results of the provider, in relevance order: the titles in
\* rotation, starting at `first`, `n` of them.
TitleSeq == <<"A", "B", "U">>
SearchResults(first, n) == [i \in 1..n |-> TitleSeq[((first + i - 2) % 3) + 1]]


(* ------------------------------ values --------------------------------- *)
\* currentArticle = null.
NullArticle == [title |-> Null, pageId |-> -2]

\* A localStorage item: missing (getItem returns null) or the text of a
\* JSON value, held here as the value JSON.parse gives back.
Missing == [kind |-> "missing"]
\* Text JSON.parse throws on.
Corrupt == [kind |-> "corrupt"]
Json(v) == [kind |-> "json", val |-> v]

\* JSON.stringify leaves out a property whose value is undefined;
\* reading a property the text does not have gives undefined.
StringifyId(p) == IF p = Undefined THEN AbsentKey ELSE p
ParseId(j) == IF j = AbsentKey THEN Undefined ELSE j
StringifyArticle(a) == [title |-> a.title, pageId |-> StringifyId(a.pageId)]
ParseArticle(j) == [title |-> j.title, pageId |-> ParseId(j.pageId)]
StringifyFavorite(f) ==
  [title |-> f.title, pageId |-> StringifyId(f.pageId), savedAt |-> f.savedAt]
ParseFavorite(j) ==
  [title |-> j.title, pageId |-> ParseId(j.pageId), savedAt |-> j.savedAt]
StringifyFavorites(favs) == [i \in 1..Len(favs) |-> StringifyFavorite(favs[i])]
ParseFavorites(js) == [i \in 1..Len(js) |-> ParseFavorite(js[i])]

\* `${article.pageId}` in the onclick attributes of the favorites list, and
\* the text the handlers receive back.
IdTexts == {"1", "2", "undefined"}
IdText(p) ==
  CASE p = 1 -> "1"
    [] p = 2 -> "2"
    [] OTHER -> "undefined"
\* Number(text): the number a text converts to; NaN (here -3) for "undefined".
NaN == -3
ToNumber(text) ==
  CASE text = "1" -> 1
    [] text = "2" -> 2
    [] OTHER      -> NaN
\* fav.pageId == text (loose equality of a pageId with a string): a number
\* equals the text's number; undefined equals only null and undefined.
LooseEq(p, text) == p # Undefined /\ ToNumber(text) # NaN /\ p = ToNumber(text)
\* fav.pageId === cur.pageId (strict equality of two pageIds).
StrictEq(p, q) == p = q

\* The text of the search input: a sequence of the characters " " and "q".
Chars == {" ", "q"}
RECURSIVE TrimLeft(_)
TrimLeft(s) == IF s # <<>> /\ Head(s) = " " THEN TrimLeft(Tail(s)) ELSE s
RECURSIVE TrimRight(_)
TrimRight(s) ==
  IF s # <<>> /\ s[Len(s)] = " " THEN TrimRight(SubSeq(s, 1, Len(s) - 1)) ELSE s
\* String.prototype.trim
NoTrim(s) == s
Trim(s) == TrimRight(TrimLeft(s))
\* The texts the user types: empty, blank, a word between blanks.
Queries == {<<>>, <<" ", " ">>, <<" ", "q", " ">>}


(* ------------------------------- state --------------------------------- *)
VARIABLES
  \* AppState
  currentArticle, favorites, theme, isLoading, autoFetchEnabled,
  autoFetchTimer, selectedCategory,
  \* localStorage
  storeFavorites, storeTheme, storeLastArticle, storeAutoFetch,
  \* the page: the article area, the search input, document.hidden, the
  \* intervals armed with setInterval and not cleared, the wall clock
  dom, searchInput, hidden, intervals, now,
  \* AppState.visitCount and the localStorage item rke_visitCount
  visitCount, storeVisitCount,
  \* the favorite button has class favorited (its text is 'Saved'); the
  \* number the favorites count badge shows
  favoriteBtn, favoritesCount,
  \* the handlers suspended on a provider call
  inflight,
  \* history: the handler step taken last; the category selected by the
  \* last handleCategoryClick and not cleared by clearCategorySelection since
  last, mode

appVars == <<currentArticle, favorites, theme, isLoading, autoFetchEnabled,
             autoFetchTimer, selectedCategory>>
storeVars == <<storeFavorites, storeTheme, storeLastArticle, storeAutoFetch>>
pageVars == <<dom, searchInput, hidden, intervals, now>>
visitVars == <<visitCount, storeVisitCount>>
indicatorVars == <<favoriteBtn, favoritesCount>>
vars == <<appVars, storeVars, pageVars, visitVars, indicatorVars, inflight, last, mode>>

(* --------------------------- AppState: loading ------------------------- *)
\* loadFavorites: JSON.parse(getItem(FAVORITES)) || []
loadFavorites(item) == IF item.kind = "json" THEN ParseFavorites(item.val) ELSE <<>>
\* loadTheme: getItem(THEME) || 'light' (null and '' are falsy)
loadTheme(text) == IF text = Null \/ text = "" THEN "light" ELSE text
\* loadAutoFetch: getItem(AUTO_FETCH) === 'true'
loadAutoFetch(text) == text = "true"
\* loadLastArticle: JSON.parse(getItem(LAST_ARTICLE)), null when missing
loadLastArticle(item) ==
  IF item.kind = "json" THEN ParseArticle(item.val) ELSE NullArticle
\* saveAutoFetch: setItem(AUTO_FETCH, autoFetchEnabled) stores the boolean as text
BoolText(b) == IF b THEN "true" ELSE "false"

\* A localStorage item holding text, here a sequence of decimal digits.
Text(digits) == [kind |-> "text", val |-> digits]
\* setItem(VISIT_COUNT, newCount): the decimal text of a number
RECURSIVE NumberText(_)
NumberText(n) == IF n < 10 THEN <<n>> ELSE Append(NumberText(n \div 10), n % 10)
\* parseInt(text): the number the leading digits spell, NaN for null and ''
RECURSIVE DigitsValue(_)
DigitsValue(digits) ==
  IF digits = <<>> THEN 0
  ELSE 10 * DigitsValue(SubSeq(digits, 1, Len(digits) - 1)) + digits[Len(digits)]
parseInt(item) ==
  IF item.kind = "text" /\ item.val # <<>> THEN DigitsValue(item.val) ELSE NaN
\* loadVisitCount: count = parseInt(getItem(VISIT_COUNT)) || 0, then
\* setItem(VISIT_COUNT, count + 1) and return count + 1
loadVisitCountKeepsCount(item) ==
  LET parsed == parseInt(item)
      count == IF parsed = NaN \/ parsed = 0 THEN 0 ELSE parsed
  IN [visitCount |-> count, item |-> Text(NumberText(count))]
loadVisitCount(item) ==
  LET parsed == parseInt(item)
      count == IF parsed = NaN \/ parsed = 0 THEN 0 ELSE parsed
      newCount == count + 1
  IN [visitCount |-> newCount, item |-> Text(NumberText(newCount))]

(* ------------------------ the article area (DOM) ----------------------- *)
\* skeleton: .article-skeleton is displayed; card: .article-card has class
\* visible; error: .error-state has class visible; message: .error-message;
\* cardTimer: a setTimeout of displayArticle (100 ms) has not run yet.
\* showSkeleton
showSkeleton(d) == [d EXCEPT !.skeleton = TRUE, !.card = FALSE, !.error = FALSE]
\* showError(message)
showErrorOverSkeleton(d, message) ==
  [d EXCEPT !.card = FALSE, !.error = TRUE, !.message = message]
showError(d, message) ==
  [d EXCEPT !.skeleton = FALSE, !.card = FALSE, !.error = TRUE, !.message = message]
\* displayArticle, its effect on the article area
displayDomKeepsSkeleton(d) ==
  [d EXCEPT !.error = FALSE, !.card = FALSE, !.cardTimer = TRUE]
displayDom(d) ==
  [d EXCEPT !.skeleton = FALSE, !.error = FALSE, !.card = FALSE, !.cardTimer = TRUE]

\* The view state of the controller read off the article area.
View(d) ==
  CASE d.error /\ ~d.skeleton  -> "Error"
    [] d.skeleton /\ ~d.error  -> "Loading"
    [] ~d.skeleton /\ ~d.error -> "Displaying"
    [] OTHER                   -> "Mixed"

\* The messages of the Errors the handlers pass to showError.
MsgNoResults == "No results found"
MsgSearch == "Failed to search articles"
MsgTitle == "Failed to fetch article"
MsgRandom == "Failed to fetch random article"
MsgCategory == "Failed to fetch category article"

(* ------------------------------ history -------------------------------- *)
\* op: the step; intent: the intent it belongs to ("" for none); busy: the
\* provider calls in flight when it began; note: for "fetchStart" the
\* endpoint asked ("random", or the category), for "failure" the cause
\* ("error": the provider call failed, "noResults": the search was empty),
\* for "success" whether auto-fetch was disabled during the call
\* ("afterDisable"); ids: the pageIds of the favorites before a
\* toggleFavorite ({} otherwise); was: the theme before a toggleTheme (""
\* otherwise); twice: the step before was the same toggle; pick: for
\* "searchResults" the number of results and the index taken (<<>> otherwise);
\* shown: for "success" the summary, word count and reading time that
\* displayArticle writes into the article card (<<>> otherwise).
Ev(op, intent, busy, note) ==
  [op |-> op, intent |-> intent, busy |-> busy, note |-> note,
   ids |-> {}, was |-> "", twice |-> FALSE, pick |-> <<>>, shown |-> <<>>]
Step(op) == Ev(op, "", BagCardinality(inflight), "")


(* --------------------------- suspended handlers ------------------------ *)
\* A handler suspended on a provider call.
\*   intent: "init" (init's fetchRandomArticle), "next" (next button, retry
\*           button, Ctrl+N, Space), "timer" (the auto-fetch interval),
\*           "search" (handleSearch), "category" (handleCategoryClick)
\*   path:   "random" (fetchRandomArticle of the service), "category"
\*           (fetchCategoryArticle), "search" (searchArticles, then
\*           fetchArticleByTitle)
\*   stage:  the call awaited: "random", "search" or "title"
\*   cat:    the category of a category path; title: the title awaited
\*   preCat, sawDisable: history. preCat is what selectedCategory would be
\*           had this intent not begun: its value just before the intent
\*           began, or what another handler has assigned since. sawDisable:
\*           auto-fetch was disabled while this call was in flight.
Task(intent, path, stage, cat, preCat) ==
  [intent |-> intent, path |-> path, stage |-> stage, cat |-> cat,
   title |-> Null, preCat |-> preCat, sawDisable |-> FALSE]

\* `inflight` is a bag of tasks: the suspended handlers have no order.
InFlight == BagCardinality(inflight)
Tasks == BagToSet(inflight)
One(task) == SetToBag({task})
MapBag(bag, F(_)) ==
  [u \in {F(t) : t \in BagToSet(bag)} |->
     Cardinality({p \in BagToSet(bag) \X (1..MaxInFlight) :
                    F(p[1]) = u /\ p[2] <= bag[p[1]]})]
\* Another handler assigns selectedCategory := sel.
NoteCategory(bag, sel) == MapBag(bag, LAMBDA t : [t EXCEPT !.preCat = sel])
\* toggleAutoFetch disables auto-fetch.
NoteDisable(bag) == MapBag(bag, LAMBDA t : [t EXCEPT !.sawDisable = TRUE])

Remove(seq, i) == SubSeq(seq, 1, i - 1) \o SubSeq(seq, i + 1, Len(seq))

\* fetchRandomArticle up to its await: `if (this.state.selectedCategory)`
\* takes the category path, else the plain random endpoint.
NextPathRandomOnly(sel) == "random"
NextPath(sel) == IF sel # Null /\ sel # "" THEN "category" ELSE "random"

fetchRandomArticleTask(intent, sel) ==
  IF NextPath(sel) = "category"
  THEN Task(intent, "category", "search", sel, sel)
  ELSE Task(intent, "random", "random", Null, sel)

(* ------------------------------ the timer ------------------------------ *)
\* setInterval returns a handle no live interval has.
NewHandle(ivs) == CHOOSE k \in 1..(Cardinality(ivs) + 1) : k \notin ivs

\* stopAutoFetch
stopAutoFetch(t, ivs) ==
  IF t # NoTimer
  THEN [timer |-> NoTimer, intervals |-> ivs \ {t}]
  ELSE [timer |-> t, intervals |-> ivs]

\* startAutoFetch: stopAutoFetch(), then autoFetchTimer = setInterval(...)
startAutoFetchNoStop(t, ivs) ==
  LET id == NewHandle(ivs) IN [timer |-> id, intervals |-> ivs \cup {id}]
startAutoFetch(t, ivs) ==
  LET s == stopAutoFetch(t, ivs)
      id == NewHandle(s.intervals)
  IN [timer |-> id, intervals |-> s.intervals \cup {id}]

\* init after `await this.ui.fetchRandomArticle()`
initAfterFetch(enabled, t, ivs) ==
  IF enabled THEN startAutoFetch(t, ivs) ELSE [timer |-> t, intervals |-> ivs]

\* the visibilitychange listener, document.hidden being h
visibilityRestartsAlways(h, enabled, t, ivs) ==
  IF h THEN stopAutoFetch(t, ivs) ELSE startAutoFetch(t, ivs)
visibilitychange(h, enabled, t, ivs) ==
  IF h THEN stopAutoFetch(t, ivs)
  ELSE IF enabled THEN startAutoFetch(t, ivs)
  ELSE [timer |-> t, intervals |-> ivs]

(* --------------------------- showing an article ------------------------ *)
\* saveLastArticle: writes the item only when currentArticle is set
saveLastArticleSkipped(cur, item) == item
saveLastArticle(cur, item) ==
  IF cur # NullArticle THEN Json(StringifyArticle(cur)) ELSE item

\* displayArticle(article): currentArticle, the stored lastArticle and the
\* article area after it
displayArticle(article, d, item) ==
  [currentArticle |-> article,
   storeLastArticle |-> saveLastArticle(article, item),
   dom |-> displayDom(d)]

\* The catch blocks of fetchRandomArticle, handleSearch and
\* handleCategoryClick: showError(error.message) and a status message.
catchClearsArticle(cur, d, item, message) ==
  [currentArticle |-> NullArticle, storeLastArticle |-> item,
   dom |-> showError(d, message)]
catchErrorUnlessShown(cur, d, item, message) ==
  [currentArticle |-> cur, storeLastArticle |-> item,
   dom |-> IF cur # NullArticle THEN [d EXCEPT !.skeleton = FALSE]
           ELSE showError(d, message)]
catchError(cur, d, item, message) ==
  [currentArticle |-> cur, storeLastArticle |-> item, dom |-> showError(d, message)]

\* The message of the Error a path ends with: fetchCategoryArticle wraps
\* every failure, the search path passes the failing call's Error on.
NoResultsAsSearchFailure(path) ==
  IF path = "category" THEN MsgCategory ELSE MsgSearch
FailureMessage(path, stage) ==
  CASE path = "category" -> MsgCategory
    [] path = "random"   -> MsgRandom
    [] stage = "search"  -> MsgSearch
    [] OTHER             -> MsgTitle
NoResultsMessage(path) == IF path = "category" THEN MsgCategory ELSE MsgNoResults


(* ------------------------------ favorites ------------------------------ *)
IdSet(favs) == {favs[i].pageId : i \in 1..Len(favs)}
NoDuplicates(favs) ==
  \A i, j \in 1..Len(favs) : i # j => ~StrictEq(favs[i].pageId, favs[j].pageId)

\* favorites.findIndex(fav => fav.pageId === cur.pageId): 0 for -1
findIndex(favs, cur) ==
  LET hits == {i \in 1..Len(favs) : StrictEq(favs[i].pageId, cur.pageId)}
  IN IF hits = {} THEN 0 ELSE CHOOSE i \in hits : \A j \in hits : i <= j

\* updateFavoriteButton: returns at once when no article is current, else
\* the button is favorited exactly when
\* favorites.some(fav => fav.pageId === currentArticle.pageId)
updateFavoriteButtonKeeps(favs, cur, btn) == btn
updateFavoriteButton(favs, cur, btn) ==
  IF cur = NullArticle THEN btn
  ELSE \E i \in 1..Len(favs) : StrictEq(favs[i].pageId, cur.pageId)
\* updateFavoritesCount: the badge shows favorites.length
updateFavoritesCount(favs) == Len(favs)

\* toggleFavorite: splice(existingIndex, 1) when the article is a favorite,
\* push({...currentArticle, savedAt}) when it is not
toggleAlwaysAdds(favs, cur, t) ==
  Append(favs, [title |-> cur.title, pageId |-> cur.pageId, savedAt |-> t])
toggleSpliceToEnd(favs, cur, t) ==
  LET hits == {i \in 1..Len(favs) : StrictEq(favs[i].pageId, cur.pageId)}
      existingIndex == IF hits = {} THEN 0 ELSE CHOOSE i \in hits : \A j \in hits : i <= j
  IN IF existingIndex > 0
     THEN SubSeq(favs, 1, existingIndex - 1)
     ELSE Append(favs, [title |-> cur.title, pageId |-> cur.pageId, savedAt |-> t])
toggleFavorite(favs, cur, t) ==
  LET existingIndex == findIndex(favs, cur)
  IN IF existingIndex > 0
     THEN Remove(favs, existingIndex)
     ELSE Append(favs, [title |-> cur.title, pageId |-> cur.pageId, savedAt |-> t])

\* favorites.filter(fav => fav.pageId != pageId), pageId being a text
removeFavorite(favs, text) == SelectSeq(favs, LAMBDA f : ~LooseEq(f.pageId, text))

\* favorites.find(fav => fav.pageId == pageId), NullArticle for undefined;
\* the article shown is the favorite (its savedAt is not read again)
findFavorite(favs, text) ==
  LET hits == {i \in 1..Len(favs) : LooseEq(favs[i].pageId, text)}
      first == CHOOSE i \in hits : \A j \in hits : i <= j
  IN IF hits = {} THEN NullArticle
     ELSE [title |-> favs[first].title, pageId |-> favs[first].pageId]

\* favorites.sort((a, b) => new Date(b.savedAt) - new Date(a.savedAt)) of
\* renderFavoritesList: in place, stable, newest first
RECURSIVE InsertBySavedAt(_, _)
InsertBySavedAt(sorted, f) ==
  IF sorted = <<>> THEN <<f>>
  ELSE IF Head(sorted).savedAt >= f.savedAt
       THEN <<Head(sorted)>> \o InsertBySavedAt(Tail(sorted), f)
       ELSE <<f>> \o sorted
RECURSIVE sortBySavedAt(_)
sortBySavedAt(favs) ==
  IF favs = <<>> THEN <<>>
  ELSE InsertBySavedAt(sortBySavedAt(SubSeq(favs, 1, Len(favs) - 1)), favs[Len(favs)])

\* saveFavorites
saveFavorites(favs) == Json(StringifyFavorites(favs))

\* toggleTheme: theme === 'light' ? 'dark' : 'light'
nextTheme(t) == IF t = "light" THEN "dark" ELSE "light"


(* ------------------------------ start-up ------------------------------- *)
\* What localStorage can hold when the page loads.  The favorites are the
\* text an earlier session saved (no two with the same pageId) or text that
\* does not parse (text of a JSON value that is not an array is left out:
\* loadFavorites returns that value, and array methods throw on it); the theme may
\* be any text ("blue": a value no version of toggleTheme writes).
InitFavorites ==
  {Missing, Corrupt,
   Json(<<[title |-> "A", pageId |-> 1, savedAt |-> 0]>>),
   Json(<<[title |-> "U", pageId |-> AbsentKey, savedAt |-> 0],
          [title |-> "B", pageId |-> 2, savedAt |-> 0]>>)}
InitThemes == {Null, "dark", "blue"}
InitAutoFetch == {Null, "true"}
InitLastArticles == {Missing, Json([title |-> "B", pageId |-> 2])}

\* initializeUI: showSkeleton(), then the cached article when offline
initializeUI(online, item) ==
  LET d0 == showSkeleton([skeleton |-> FALSE, card |-> FALSE, error |-> FALSE,
                          message |-> Null, cardTimer |-> FALSE])
      lastArticle == loadLastArticle(item)
  IN IF ~online /\ lastArticle # NullArticle
     THEN displayArticle(lastArticle, d0, item)
     ELSE [currentArticle |-> NullArticle, storeLastArticle |-> item, dom |-> d0]

\* new RandomKnowledgeExplorer(): new AppState(), new UIController(state)
\* and init() up to `await this.ui.fetchRandomArticle()`.
Init ==
  \E sf \in InitFavorites, st \in InitThemes, sa \in InitAutoFetch,
     sl \in InitLastArticles, online \in BOOLEAN, h \in BOOLEAN :
    LET ui == initializeUI(online, sl) IN
    /\ storeFavorites = sf
    /\ storeTheme = st
    /\ storeAutoFetch = sa
    /\ storeLastArticle = ui.storeLastArticle
    /\ currentArticle = ui.currentArticle
    /\ favorites = loadFavorites(sf)
    /\ theme = loadTheme(st)
    /\ isLoading = FALSE
    /\ autoFetchEnabled = loadAutoFetch(sa)
    /\ autoFetchTimer = NoTimer
    /\ selectedCategory = Null
    /\ dom = showSkeleton(ui.dom)
    /\ searchInput = <<>>
    /\ hidden = h
    /\ intervals = {}
    /\ now = 0
    /\ inflight = SetToBag({fetchRandomArticleTask("init", Null)})
    /\ visitCount = loadVisitCount(Missing).visitCount
    /\ storeVisitCount = loadVisitCount(Missing).item
    \* initializeUI: updateFavoritesCount(); the button is as the page's
    \* markup has it (not favorited) until displayArticle updates it
    /\ favoritesCount = updateFavoritesCount(loadFavorites(sf))
    /\ favoriteBtn = updateFavoriteButton(loadFavorites(sf), ui.currentArticle, FALSE)
    /\ last = Ev(IF online THEN "boot" ELSE "bootOffline", "init", 0, "random")
    /\ mode = Null

(* ------------------------------ handlers ------------------------------- *)
\* themeToggle click
ToggleTheme ==
  /\ theme' = nextTheme(theme)
  /\ storeTheme' = theme'
  /\ last' = [Step("toggleTheme") EXCEPT !.was = theme,
                                          !.twice = (last.op = "toggleTheme")]
  /\ UNCHANGED <<visitVars, indicatorVars, mode, currentArticle, favorites, isLoading, autoFetchEnabled,
                 autoFetchTimer, selectedCategory, storeFavorites,
                 storeLastArticle, storeAutoFetch, pageVars, inflight>>

\* logo click: clearCategorySelection()
LogoClick ==
  /\ selectedCategory' = Null
  /\ inflight' = NoteCategory(inflight, Null)
  /\ last' = Step("clearCategory")
  /\ mode' = Null
  /\ UNCHANGED <<visitVars, indicatorVars, currentArticle, favorites, theme, isLoading, autoFetchEnabled,
                 autoFetchTimer, storeVars, pageVars>>

\* the user edits the search input
TypeQuery(q) ==
  /\ q # searchInput
  /\ searchInput' = q
  /\ last' = Step("type")
  /\ UNCHANGED <<visitVars, indicatorVars, mode, appVars, storeVars, dom, hidden, intervals, now, inflight>>

\* handleSearch up to `await WikipediaService.searchArticles(query, 1)`
HandleSearch ==
  LET query == Trim(searchInput) IN
  IF query = <<>>
  THEN /\ last' = Step("searchEmpty")
       /\ UNCHANGED <<visitVars, indicatorVars, mode, appVars, storeVars, pageVars, inflight>>
  ELSE /\ InFlight < MaxInFlight
       /\ selectedCategory' = Null
       /\ dom' = showSkeleton(dom)
       /\ inflight' = NoteCategory(inflight, Null)
                      (+) One(Task("search", "search", "search", Null, selectedCategory))
       /\ last' = Ev("fetchStart", "search", InFlight, "search")
       /\ mode' = Null
       /\ UNCHANGED <<visitVars, indicatorVars, currentArticle, favorites, theme, isLoading,
                      autoFetchEnabled, autoFetchTimer, storeVars,
                      searchInput, hidden, intervals, now>>

\* handleCategoryClick(category) up to `await fetchCategoryArticle(category)`
HandleCategoryClick(category) ==
  /\ InFlight < MaxInFlight
  /\ selectedCategory' = category
  /\ dom' = showSkeleton(dom)
  /\ inflight' = NoteCategory(inflight, category)
                 (+) One(Task("category", "category", "search", category, selectedCategory))
  /\ last' = Ev("fetchStart", "category", InFlight, category)
  /\ mode' = category
  /\ UNCHANGED <<visitVars, indicatorVars, currentArticle, favorites, theme, isLoading, autoFetchEnabled,
                 autoFetchTimer, storeVars, searchInput, hidden, intervals, now>>

\* fetchRandomArticle up to its await, called for `intent`
FetchRandomArticle(intent) ==
  /\ InFlight < MaxInFlight
  /\ dom' = showSkeleton(dom)
  /\ LET task == fetchRandomArticleTask(intent, selectedCategory) IN
       /\ inflight' = inflight (+) One(task)
       /\ last' = Ev("fetchStart", intent, InFlight,
                     IF task.path = "category" THEN task.cat ELSE "random")
  /\ UNCHANGED <<visitVars, indicatorVars, mode, appVars, storeVars, searchInput, hidden, intervals, now>>

\* next button, retry button, Ctrl+N, Space
NextIntent == FetchRandomArticle("next")

\* the callback of a live interval:
\* if (!this.state.isLoading) this.fetchRandomArticle()
TimerTick ==
  /\ intervals # {}
  /\ IF ~isLoading
     THEN FetchRandomArticle("timer")
     ELSE /\ last' = Step("timerSkip")
          /\ UNCHANGED <<visitVars, indicatorVars, mode, appVars, storeVars, pageVars, inflight>>


(* -------------------------- provider responses ------------------------- *)
\* The handler `task` runs to its end with effect eff (displayArticle or a
\* catch block); init then goes on after its await.
Finish(task, eff, op, cause) ==
  LET timer == IF task.intent = "init"
               THEN initAfterFetch(autoFetchEnabled, autoFetchTimer, intervals)
               ELSE [timer |-> autoFetchTimer, intervals |-> intervals]
  IN /\ currentArticle' = eff.currentArticle
     /\ storeLastArticle' = eff.storeLastArticle
     /\ dom' = eff.dom
     /\ autoFetchTimer' = timer.timer
     /\ intervals' = timer.intervals
     /\ inflight' = inflight (-) One(task)
     /\ last' = [Ev(op, task.intent, InFlight, cause) EXCEPT
                   !.shown = IF op = "success"
                             THEN normalizeSummary(ExtractOf(eff.currentArticle.title))
                             ELSE <<>>]
     \* displayArticle: updateFavoriteButton(); the catch blocks leave it
     /\ favoriteBtn' = IF op = "success"
                       THEN updateFavoriteButton(favorites, eff.currentArticle, favoriteBtn)
                       ELSE favoriteBtn
     /\ UNCHANGED <<visitVars, favoritesCount, mode, favorites, theme, isLoading, autoFetchEnabled,
                    selectedCategory, storeFavorites, storeTheme,
                    storeAutoFetch, hidden, now>>

Succeed(task, article) ==
  /\ Finish(task, displayArticle(article, dom, storeLastArticle), "success",
            IF task.sawDisable THEN "afterDisable" ELSE "")
  \* handleSearch: this.elements.searchInput.value = ''
  /\ searchInput' = IF task.intent = "search" THEN <<>> ELSE searchInput

Fail(task, message, cause) ==
  /\ Finish(task, catchError(currentArticle, dom, storeLastArticle, message),
            "failure", cause)
  /\ UNCHANGED searchInput

\* WikipediaService.fetchRandomArticle answers: an article, or an Error
RandomResponse(task) ==
  /\ task.stage = "random"
  /\ \/ \E t \in Titles : Succeed(task, normalizeArticleData(t))
     \/ Fail(task, FailureMessage(task.path, "random"), "error")

\* The indexes fetchCategoryArticle samples from:
\* Math.floor(Math.random() * Math.min(5, searchResults.length))
SampleAnyIndex(n) == 0..(n - 1)
SampleIndexes(n) == 0..(Min(TopResults, n) - 1)

\* handleSearch takes searchResults[0]
PickIndexes(path, n) == IF path = "category" THEN SampleIndexes(n) ELSE {0}

\* The limit of the search a path issues.
LimitOf(path) == IF path = "category" THEN CategoryLimit ELSE SearchLimit

\* What a path can go on with: over every answer of n >= 1 results (no more
\* than the limit asked for, nor than `most`) and every index idx the path
\* picks, the title of searchResults[idx].
Picks(path, most) ==
  {[n |-> x[2], idx |-> x[3], title |-> SearchResults(x[1], x[2])[x[3] + 1]] :
     x \in {y \in (1..3) \X (1..Min(LimitOf(path), most)) \X (0..(most - 1)) :
             y[3] \in PickIndexes(path, y[2])}}

\* WikipediaService.searchArticles answers: n results (no more than the limit
\* asked for, nor than `most`), or an Error.  With results the handler goes
\* on to fetchArticleByTitle; with none it throws.
SearchAnswer(task, most) ==
  /\ task.stage = "search"
  /\ \/ Fail(task, FailureMessage(task.path, "search"), "error")
     \/ Fail(task, NoResultsMessage(task.path), "noResults")
     \/ \E p \in Picks(task.path, most) :
          /\ inflight' = (inflight (-) One(task))
               (+) One([task EXCEPT !.stage = "title", !.title = p.title])
          /\ last' = [Ev("searchResults", task.intent, InFlight, "")
                        EXCEPT !.pick = <<p.n, p.idx>>]
          /\ UNCHANGED <<visitVars, indicatorVars, mode, appVars, storeVars, pageVars>>

SearchResponse(task) == SearchAnswer(task, MaxResults)

\* WikipediaService.fetchArticleByTitle answers: the article, or an Error
TitleResponse(task) ==
  /\ task.stage = "title"
  /\ \/ Succeed(task, normalizeArticleData(task.title))
     \/ Fail(task, FailureMessage(task.path, "title"), "error")

(* ------------------------- favorites handlers -------------------------- *)
\* favoriteBtn click, Ctrl+F
ToggleFavorite ==
  IF currentArticle = NullArticle
  THEN /\ last' = Step("toggleFavoriteNoArticle")
       /\ UNCHANGED <<visitVars, indicatorVars, mode, appVars, storeVars, pageVars, inflight>>
  ELSE \E t \in now..Min(now + 1, MaxClock) :
       /\ now' = t
       /\ favorites' = toggleFavorite(favorites, currentArticle, t)
       /\ storeFavorites' = saveFavorites(favorites')
       /\ last' = [Step("toggleFavorite") EXCEPT !.ids = IdSet(favorites),
                                                  !.twice = (last.op = "toggleFavorite")]
       /\ favoriteBtn' = updateFavoriteButton(favorites', currentArticle, favoriteBtn)
       /\ favoritesCount' = updateFavoritesCount(favorites')
       /\ UNCHANGED <<visitVars, mode, currentArticle, theme, isLoading, autoFetchEnabled,
                      autoFetchTimer, selectedCategory, storeTheme,
                      storeLastArticle, storeAutoFetch, dom, searchInput,
                      hidden, intervals, inflight>>

\* favoritesToggle click: toggleFavoritesModal renders the list, and
\* renderFavoritesList sorts this.state.favorites in place
ToggleFavoritesModal ==
  /\ favorites' = sortBySavedAt(favorites)
  /\ last' = Step("favoritesModal")
  /\ UNCHANGED <<visitVars, indicatorVars, mode, currentArticle, theme, isLoading, autoFetchEnabled,
                 autoFetchTimer, selectedCategory, storeVars, pageVars, inflight>>

\* app.openFavorite('<pageId>')
OpenFavorite(text) ==
  LET article == findFavorite(favorites, text) IN
  IF article = NullArticle
  THEN /\ last' = Step("openFavoriteNone")
       /\ UNCHANGED <<visitVars, indicatorVars, mode, appVars, storeVars, pageVars, inflight>>
  ELSE LET eff == displayArticle(article, dom, storeLastArticle) IN
       /\ currentArticle' = eff.currentArticle
       /\ storeLastArticle' = eff.storeLastArticle
       /\ dom' = eff.dom
       /\ last' = Step("openFavorite")
       /\ favoriteBtn' = updateFavoriteButton(favorites, eff.currentArticle, favoriteBtn)
       /\ UNCHANGED <<visitVars, favoritesCount, mode, favorites, theme, isLoading, autoFetchEnabled,
                      autoFetchTimer, selectedCategory, storeFavorites,
                      storeTheme, storeAutoFetch, searchInput, hidden,
                      intervals, now, inflight>>

\* app.removeFavorite('<pageId>'): filter, saveFavorites,
\* updateFavoritesCount, renderFavoritesList (which sorts in place after the
\* save), updateFavoriteButton
RemoveFavorite(text) ==
  LET kept == removeFavorite(favorites, text) IN
  /\ storeFavorites' = saveFavorites(kept)
  /\ favorites' = sortBySavedAt(kept)
  /\ last' = [Step("removeFavorite") EXCEPT !.note = text]
  /\ favoritesCount' = updateFavoritesCount(kept)
  /\ favoriteBtn' = updateFavoriteButton(favorites', currentArticle, favoriteBtn)
  /\ UNCHANGED <<visitVars, mode, currentArticle, theme, isLoading, autoFetchEnabled,
                 autoFetchTimer, selectedCategory, storeTheme,
                 storeLastArticle, storeAutoFetch, pageVars, inflight>>

(* --------------------------- auto-fetch, page -------------------------- *)
\* autoFetchToggle click
ToggleAutoFetch ==
  LET enabled == ~autoFetchEnabled
      timer == IF enabled THEN startAutoFetch(autoFetchTimer, intervals)
               ELSE stopAutoFetch(autoFetchTimer, intervals)
  IN /\ autoFetchEnabled' = enabled
     /\ storeAutoFetch' = BoolText(enabled)
     /\ autoFetchTimer' = timer.timer
     /\ intervals' = timer.intervals
     /\ inflight' = IF enabled THEN inflight ELSE NoteDisable(inflight)
     /\ last' = Step(IF enabled THEN "autoFetchOn" ELSE "autoFetchOff")
     /\ UNCHANGED <<visitVars, indicatorVars, mode, currentArticle, favorites, theme, isLoading,
                    selectedCategory, storeFavorites, storeTheme,
                    storeLastArticle, dom, searchInput, hidden, now>>

\* the page is hidden or shown again: the visibilitychange listener
VisibilityChange ==
  LET timer == visibilitychange(~hidden, autoFetchEnabled, autoFetchTimer, intervals)
  IN /\ hidden' = ~hidden
     /\ autoFetchTimer' = timer.timer
     /\ intervals' = timer.intervals
     /\ last' = Step("visibility")
     /\ UNCHANGED <<visitVars, indicatorVars, mode, currentArticle, favorites, theme, isLoading,
                    autoFetchEnabled, selectedCategory, storeVars, dom,
                    searchInput, now, inflight>>

\* a setTimeout of displayArticle runs: articleCard.classList.add('visible');
\* others may still be pending
CardTimer ==
  /\ dom.cardTimer
  /\ \E more \in BOOLEAN : dom' = [dom EXCEPT !.card = TRUE, !.cardTimer = more]
  /\ last' = Step("cardTimer")
  /\ UNCHANGED <<visitVars, indicatorVars, mode, appVars, storeVars, searchInput, hidden, intervals, now, inflight>>

\* The page is loaded again on the same store: a new session starts
\* (DOMContentLoaded: new RandomKnowledgeExplorer()); the handlers and
\* intervals of the page before are gone with it.
Reload ==
  /\ visitCount < MaxVisits
  /\ \E online \in BOOLEAN, h \in BOOLEAN :
       LET ui == initializeUI(online, storeLastArticle)
           visit == loadVisitCount(storeVisitCount)
       IN /\ storeLastArticle' = ui.storeLastArticle
          /\ currentArticle' = ui.currentArticle
          /\ favorites' = loadFavorites(storeFavorites)
          /\ theme' = loadTheme(storeTheme)
          /\ isLoading' = FALSE
          /\ autoFetchEnabled' = loadAutoFetch(storeAutoFetch)
          /\ autoFetchTimer' = NoTimer
          /\ selectedCategory' = Null
          /\ dom' = showSkeleton(ui.dom)
          /\ searchInput' = <<>>
          /\ hidden' = h
          /\ intervals' = {}
          /\ inflight' = SetToBag({fetchRandomArticleTask("init", Null)})
          /\ visitCount' = visit.visitCount
          /\ storeVisitCount' = visit.item
          /\ favoritesCount' = updateFavoritesCount(favorites')
          /\ favoriteBtn' = updateFavoriteButton(favorites', ui.currentArticle, FALSE)
          /\ last' = Ev(IF online THEN "boot" ELSE "bootOffline", "init", 0, "random")
          /\ mode' = Null
          /\ UNCHANGED <<storeFavorites, storeTheme, storeAutoFetch, now>>

(* --------------------------- specifications --------------------------- *)
\* The whole program.
Next ==
  \/ ToggleTheme
  \/ LogoClick
  \/ \E q \in Queries : TypeQuery(q)
  \/ HandleSearch
  \/ \E c \in Categories : HandleCategoryClick(c)
  \/ NextIntent
  \/ TimerTick
  \/ \E task \in Tasks : RandomResponse(task)
  \/ \E task \in Tasks : SearchResponse(task)
  \/ \E task \in Tasks : TitleResponse(task)
  \/ ToggleFavorite
  \/ ToggleFavoritesModal
  \/ \E text \in IdTexts : OpenFavorite(text)
  \/ \E text \in IdTexts : RemoveFavorite(text)
  \/ ToggleAutoFetch
  \/ VisibilityChange
  \/ CardTimer
  \/ Reload

Spec == Init /\ [][Next]_vars

\* A session started online with one favorite, a cached article and the
\* default theme, as the fetch specifications start it; auto-fetch is as the
\* store has it.
InitFetch ==
  /\ Init
  /\ storeFavorites = Json(<<[title |-> "A", pageId |-> 1, savedAt |-> 0]>>)
  /\ storeLastArticle = Json([title |-> "B", pageId |-> 2])
  /\ storeTheme = Null
  /\ last.op = "boot"
  /\ ~hidden

\* The same session with auto-fetch off in the store.
InitManual == InitFetch /\ storeAutoFetch = Null

\* Category mode: selecting a category, the logo, next, and the provider's
\* answers (searches of up to MaxResults results), with auto-fetch off; no
\* more than MaxIntents provider calls are outstanding at once.
NextCategory ==
  \/ LogoClick
  \/ \E c \in Categories : InFlight < MaxIntents /\ HandleCategoryClick(c)
  \/ InFlight < MaxIntents /\ NextIntent
  \/ \E task \in Tasks : RandomResponse(task)
  \/ \E task \in Tasks : SearchResponse(task)
  \/ \E task \in Tasks : TitleResponse(task)

SpecCategory == InitManual /\ [][NextCategory]_vars

\* Every fetch intent: typing and submitting a search, selecting a category,
\* the logo, next, the ticks of the auto-fetch interval (armed at the end of
\* start-up when the store enables it), and the provider's answers, a search
\* being answered with one result at most; no more than MaxIntents provider
\* calls are outstanding at once.
NextIntents ==
  \/ \E q \in Queries : TypeQuery(q)
  \/ (InFlight < MaxIntents \/ Trim(searchInput) = <<>>) /\ HandleSearch
  \/ \E c \in Categories : InFlight < MaxIntents /\ HandleCategoryClick(c)
  \/ InFlight < MaxIntents /\ NextIntent
  \/ InFlight < MaxIntents /\ TimerTick
  \/ LogoClick
  \/ \E task \in Tasks : RandomResponse(task)
  \/ \E task \in Tasks : SearchAnswer(task, 1)
  \/ \E task \in Tasks : TitleResponse(task)

SpecIntents == InitFetch /\ [][NextIntents]_vars

\* The preferences and the auto-fetch timer: theme, auto-fetch, page
\* visibility, the interval's ticks and the fetches they and the next button
\* start, in a session with no favorites and no cached article.
InitTimer ==
  /\ Init
  /\ storeFavorites = Missing
  /\ storeLastArticle = Missing

NextTimer ==
  \/ ToggleTheme
  \/ ToggleAutoFetch
  \/ VisibilityChange
  \/ TimerTick
  \/ NextIntent
  \/ \E task \in Tasks : RandomResponse(task)

SpecTimer == InitTimer /\ [][NextTimer]_vars

\* The favorites: toggling, removing, opening and listing them, and the
\* article displays that change the current article in between.
InitFavs ==
  /\ Init
  /\ storeTheme = Null
  /\ storeAutoFetch = Null
  /\ ~hidden

NextFavs ==
  \/ ToggleFavorite
  \/ ToggleFavoritesModal
  \/ \E text \in IdTexts : OpenFavorite(text)
  \/ \E text \in IdTexts : RemoveFavorite(text)
  \/ NextIntent
  \/ \E task \in Tasks : RandomResponse(task)

SpecFavs == InitFavs /\ [][NextFavs]_vars


\* Overlapping intents: next and search begun while other provider calls
\* (that of start-up among them) are still awaited, up to MaxInFlight at
\* once, the answers arriving in any order, and the timers of displayArticle.
NextOverlap ==
  \/ \E q \in Queries : TypeQuery(q)
  \/ HandleSearch
  \/ NextIntent
  \/ \E task \in Tasks : RandomResponse(task)
  \/ \E task \in Tasks : SearchAnswer(task, 1)
  \/ \E task \in Tasks : TitleResponse(task)
  \/ CardTimer
SpecOverlap == InitManual /\ [][NextOverlap]_vars

\* Sessions one after another on one store that starts empty, with the
\* theme toggled and articles fetched in them.
InitVisits ==
  /\ Init
  /\ storeFavorites = Missing
  /\ storeLastArticle = Missing
  /\ storeTheme = Null
  /\ storeAutoFetch = Null
  /\ ~hidden
NextVisits ==
  \/ Reload
  \/ ToggleTheme
  \/ NextIntent
  \/ \E task \in Tasks : RandomResponse(task)
SpecVisits == InitVisits /\ [][NextVisits]_vars

(* ------------------------------- claims -------------------------------- *)
IsBlank(text) == \A i \in 1..Len(text) : text[i] = " "
Shown == currentArticle \in Articles

\* C1: the favorites never hold two entries with equal pageId, whatever the
\* sequence of toggleFavorite, removeFavorite, openFavorite and article
\* displays (SpecFavs, which starts from stored favorites without duplicates).
C1_FavoritesUnique == NoDuplicates(favorites)
\* An article was just added next to two other favorites, one of them
\* without a pageId.
C1_Witness ==
  /\ last.op = "toggleFavorite"
  /\ Len(favorites) = 3
  /\ favorites[3].pageId = currentArticle.pageId

\* C2: toggleFavorite called twice in succession on the current article
\* restores the set of pageIds the favorites had before the first call.
C2_ToggleTwiceRestores ==
  [][(last.op = "toggleFavorite" /\ last'.op = "toggleFavorite")
       => IdSet(favorites') = last.ids]_vars
\* Two toggles in a row of an article that was a favorite, among others: it
\* was removed and added again.
C2_Witness ==
  /\ last.op = "toggleFavorite"
  /\ last.twice
  /\ Len(favorites) >= 2
  /\ currentArticle.pageId \notin last.ids
  /\ currentArticle.pageId \in IdSet(favorites)

\* C3: a tick of the auto-fetch interval starts a fetch only when no fetch is
\* in flight (isLoading being true for as long as one is).
C3_TimerFetchNeverOverlaps ==
  (last.op = "fetchStart" /\ last.intent = "timer") => last.busy = 0

\* C4: with auto-fetch disabled no tick starts a fetch (across visibility
\* changes and the end of start-up); disabling stops the interval and leaves
\* the calls in flight, and one that then succeeds shows its article.
C4_DisabledMeansNoTimerFetch ==
  /\ (last.op = "fetchStart" /\ last.intent = "timer") => autoFetchEnabled
  /\ last.op = "autoFetchOff" =>
       (intervals = {} /\ autoFetchTimer = NoTimer /\ InFlight = last.busy)
  /\ (last.op = "success" /\ last.note = "afterDisable") =>
       (Shown /\ View(dom) = "Displaying"
        /\ storeLastArticle = Json(StringifyArticle(currentArticle)))
\* A fetch that was in flight when auto-fetch was disabled has succeeded,
\* auto-fetch still being off.
C4_Witness ==
  /\ last.op = "success"
  /\ last.note = "afterDisable"
  /\ ~autoFetchEnabled
  /\ Shown

\* C5: between handleCategoryClick(c) and the next clearCategorySelection
\* every next intent asks the category path for c; after
\* clearCategorySelection it asks the plain random endpoint.
C5_NextFollowsCategory ==
  (last.op = "fetchStart" /\ last.intent \in {"next", "timer"})
    => last.note = (IF mode # Null THEN mode ELSE "random")
\* A tick of the interval asked for a science article.
C5_Witness ==
  /\ last.op = "fetchStart"
  /\ last.intent = "timer"
  /\ mode = "science"
  /\ last.note = "science"

\* C6: submitting a search input that is empty or all blanks changes nothing:
\* no provider call, the same article, article area, category, favorites and
\* stored values.
C6_BlankSearchIsNoOp ==
  [][((last'.op = "searchEmpty" \/ (last'.op = "fetchStart" /\ last'.intent = "search"))
       /\ IsBlank(searchInput))
      => UNCHANGED <<appVars, storeVars, pageVars, inflight>>]_vars
\* A search of blanks was submitted with an article shown and a category
\* selected.
C6_Witness ==
  /\ last.op = "searchEmpty"
  /\ searchInput = <<" ", " ">>
  /\ selectedCategory # Null
  /\ Shown

\* C7: a search answered with no results ends in the Error view with the
\* no-results message, asks for no article by title and keeps the current
\* article; a search answered with results asks for the first result's title
\* and shows the article it gets.
C7_SearchOutcome ==
  [][/\ (last'.op = "failure" /\ last'.intent = "search" /\ last'.note = "noResults")
          => \E task \in Tasks :
               /\ task.intent = "search" /\ task.stage = "search"
               /\ inflight' = inflight (-) One(task)
               /\ View(dom') = "Error"
               /\ dom'.message = MsgNoResults
               /\ UNCHANGED <<currentArticle, storeLastArticle>>
     /\ (last'.op = "searchResults" /\ last'.intent = "search")
          => \E task \in Tasks, first \in 1..3, n \in 1..MaxResults :
               /\ task.intent = "search" /\ task.stage = "search"
               /\ inflight' = (inflight (-) One(task))
                    (+) One([task EXCEPT !.stage = "title",
                                         !.title = SearchResults(first, n)[1]])
     /\ (last'.op = "success" /\ last'.intent = "search")
          => \E task \in Tasks :
               /\ task.intent = "search" /\ task.stage = "title"
               /\ inflight' = inflight (-) One(task)
               /\ currentArticle' = normalizeArticleData(task.title)
               /\ View(dom') = "Displaying"]_vars
\* A search found nothing while an article was shown.
C7_Witness ==
  /\ last.op = "failure"
  /\ last.intent = "search"
  /\ last.note = "noResults"
  /\ Shown
  /\ View(dom) = "Error"

\* C8: toggleTheme maps light to dark and dark to light, and called twice it
\* gives back the theme it started from, in memory and in the store.
C8_ToggleThemeTwice ==
  [][last'.op = "toggleTheme"
       => /\ theme = "light" => theme' = "dark"
          /\ theme = "dark" => theme' = "light"
          /\ last.op = "toggleTheme" => (theme' = last.was /\ storeTheme' = last.was)]_vars

\* C9 as claimed: when an intent fails the view is Error, no retry is made,
\* and the favorites and the preferences (theme, autoFetchEnabled,
\* selectedCategory) are what they were before the intent started.
C9_FailureRestoresPreferences ==
  [][last'.op = "failure"
       => \E task \in Tasks :
            /\ task.intent = last'.intent
            /\ inflight' = inflight (-) One(task)
            /\ View(dom') = "Error"
            /\ selectedCategory' = task.preCat
            /\ UNCHANGED <<favorites, theme, autoFetchEnabled>>]_vars
\* C9 as amended: when an intent fails the view is Error and no retry is
\* made; no step of the intent has changed the favorites, the theme or
\* autoFetchEnabled; selectedCategory stays as the intent set it when it
\* started (the category clicked, none for a search, untouched by next and
\* by a tick).
C9_FailureLeavesPreferences ==
  [][/\ last'.op = "failure"
          => /\ \E task \in Tasks :
                  task.intent = last'.intent /\ inflight' = inflight (-) One(task)
             /\ View(dom') = "Error"
             /\ UNCHANGED <<favorites, theme, autoFetchEnabled, selectedCategory,
                            storeFavorites, storeTheme, storeAutoFetch>>
     /\ last'.op = "searchResults"
          => UNCHANGED <<favorites, theme, autoFetchEnabled, selectedCategory,
                         storeFavorites, storeTheme, storeAutoFetch>>
     /\ last'.op = "fetchStart"
          => /\ UNCHANGED <<favorites, theme, autoFetchEnabled,
                            storeFavorites, storeTheme, storeAutoFetch>>
             /\ selectedCategory' =
                  CASE last'.intent = "category" -> last'.note
                    [] last'.intent = "search"   -> Null
                    [] OTHER                     -> selectedCategory]_vars
\* A category selection has failed: the view is Error and the category
\* clicked is selected.
C9_Witness ==
  /\ last.op = "failure"
  /\ last.intent = "category"
  /\ selectedCategory = "science"
  /\ View(dom) = "Error"
  /\ favorites # <<>>

\* C10: no step of a next or category fetch that fails (its start, the
\* search answer, the failure) changes the current article or the stored
\* lastArticle.
C10_FailureKeepsArticle ==
  [][(last'.op \in {"fetchStart", "searchResults", "failure"}
       /\ last'.intent \in {"init", "next", "timer", "category"})
      => UNCHANGED <<currentArticle, storeLastArticle>>]_vars
\* A next fetch in category mode has failed with an article shown, which the
\* store holds as lastArticle.
C10_Witness ==
  /\ last.op = "failure"
  /\ last.intent = "next"
  /\ mode # Null
  /\ Shown
  /\ storeLastArticle = Json(StringifyArticle(currentArticle))
  /\ View(dom) = "Error"

\* C11: in every state where an article is the current one, the stored
\* lastArticle is that article; successful fetches, openFavorite and the
\* offline start-up display all go through displayArticle.
C11_LastArticleIsCurrent ==
  Shown => /\ storeLastArticle.kind = "json"
           /\ ParseArticle(storeLastArticle.val) = currentArticle
\* A favorite other than the stored lastArticle was opened from the list.
C11_Witness ==
  /\ last.op = "openFavorite"
  /\ currentArticle.pageId = 1
  /\ storeLastArticle = Json(StringifyArticle(currentArticle))
  /\ View(dom) = "Displaying"

\* C12: removeFavorite called with the text the favorites list renders for
\* an entry's pageId removes every favorite with that pageId, keeps the
\* others (in their order in the store) and persists the result; with no
\* favorite of that pageId nothing changes.  For every pageId, an absent one
\* included.
C12_RemoveFavoriteByKey ==
  [][last'.op = "removeFavorite"
       => LET others == SelectSeq(favorites, LAMBDA f : IdText(f.pageId) # last'.note)
          IN /\ {favorites'[i] : i \in 1..Len(favorites')}
                  = {others[i] : i \in 1..Len(others)}
             /\ storeFavorites' = Json(StringifyFavorites(others))]_vars

\* C13: whenever no handler is running, the favorites sequence in the store
\* is the favorites sequence in memory, element for element and in the same
\* order (every change of membership or order is saved).
C13_StoreHoldsFavorites == loadFavorites(storeFavorites) = favorites

\* C14: whatever the store holds when the session starts, the state loaded
\* from it is valid: favorites is a sequence, theme is light or dark, and
\* autoFetchEnabled is a boolean.
C14_LoadedStateValid ==
  last.op \in {"boot", "bootOffline"}
    => /\ theme \in {"light", "dark"}
       /\ autoFetchEnabled \in BOOLEAN
       /\ DOMAIN favorites = 1..Len(favorites)

\* C15: a session start adds exactly one to the stored visitCount (and
\* visitCount in memory is the stored number); no other step changes the
\* stored value, so it never decreases or resets.
C15_VisitCountCountsSessions ==
  [][IF last'.op \in {"boot", "bootOffline"}
     THEN /\ parseInt(storeVisitCount') = parseInt(storeVisitCount) + 1
          /\ visitCount' = parseInt(storeVisitCount')
     ELSE UNCHANGED storeVisitCount]_vars
\* The eleventh session has started (the stored text has two digits), after
\* sessions in which the theme was changed and an article shown.
C15_Witness ==
  /\ last.op = "bootOffline"
  /\ visitCount = 11
  /\ storeVisitCount = Text(<<1, 1>>)
  /\ theme = "dark"
  /\ Shown

\* C16: of a category search answered with n >= 1 results,
\* fetchCategoryArticle fetches by title a result at an index below 5 and
\* below n, and each index below min(5, n) can be the one; answered with no
\* result it fails and fetches nothing by title.
C16_CategorySample ==
  [][/\ last'.op = "searchResults"
          => /\ last'.pick[2] \in 0..4
             /\ last'.pick[2] < last'.pick[1]
             /\ PickIndexes("category", last'.pick[1])
                  = 0..((IF last'.pick[1] < 5 THEN last'.pick[1] ELSE 5) - 1)
             /\ \E task \in Tasks, title \in Titles :
                  /\ task.path = "category" /\ task.stage = "search"
                  /\ inflight' = (inflight (-) One(task))
                       (+) One([task EXCEPT !.stage = "title", !.title = title])
     /\ (last'.op = "failure" /\ last'.note = "noResults")
          => \E task \in Tasks :
               /\ task.path = "category" /\ task.stage = "search"
               /\ inflight' = inflight (-) One(task)
               /\ View(dom') = "Error"]_vars
\* A category search was answered with six results and the fifth of them is
\* being fetched by title.
C16_Witness ==
  /\ last.op = "searchResults"
  /\ last.pick = <<6, 4>>
  /\ \E task \in Tasks : task.path = "category" /\ task.stage = "title"

\* C17: a fetch intent that starts puts the article area in Loading (the
\* skeleton alone), whatever it showed; and whenever no provider call is
\* awaited the article area shows an article or an error, never the
\* skeleton, however the intents overlapped.
C17_LoadingEnds ==
  /\ last.op = "fetchStart" => (View(dom) = "Loading" /\ ~dom.card)
  /\ InFlight = 0 => View(dom) \in {"Displaying", "Error"}
\* The fetch of start-up is the last to be answered, with an article, after
\* an intent begun later has failed: nothing is awaited and the article shows.
C17_Witness ==
  /\ InFlight = 0
  /\ last.op = "success"
  /\ last.intent = "init"
  /\ dom.message # Null
  /\ View(dom) = "Displaying"

\* C18: an answer is applied when it arrives, whatever began or ended since
\* its intent began: a success makes its article the current one, stores it
\* as lastArticle and shows it; a failure shows the error over whatever
\* article a later intent has made current.
C18_AnswersAppliedOnArrival ==
  [][/\ last'.op = "success"
          => \E task \in Tasks :
               /\ task.intent = last'.intent
               /\ inflight' = inflight (-) One(task)
               /\ currentArticle' \in Articles
               /\ task.stage = "title" => currentArticle' = normalizeArticleData(task.title)
               /\ storeLastArticle' = Json(StringifyArticle(currentArticle'))
               /\ View(dom') = "Displaying"
     /\ last'.op = "failure"
          => \E task \in Tasks :
               /\ task.intent = last'.intent
               /\ inflight' = inflight (-) One(task)
               /\ View(dom') = "Error"
               /\ UNCHANGED <<currentArticle, storeLastArticle>>]_vars
\* The fetch of start-up, the oldest intent, fails last: its error hides the
\* article that an intent begun after it had shown.
C18_Witness ==
  /\ last.op = "failure"
  /\ last.intent = "init"
  /\ InFlight = 0
  /\ Shown
  /\ storeLastArticle = Json(StringifyArticle(currentArticle))
  /\ View(dom) = "Error"

\* C19: of every article normalized from the provider's data, wordCount is
\* the number of whitespace-delimited non-empty tokens of its summary, and
\* readingTime is wordCount / 200 rounded up (0 for no word), the summary
\* being the placeholder when the provider supplies none.
TokenCount(text) ==
  Cardinality({i \in 1..Len(text) : text[i] # " " /\ (i = 1 \/ text[i - 1] = " ")})
C19_CountsFollowSummary ==
  last.op = "success"
    => /\ last.shown.wordCount = TokenCount(last.shown.summary)
       /\ last.shown.readingTime =
            (IF last.shown.wordCount = 0 THEN 0
             ELSE ((last.shown.wordCount - 1) \div 200) + 1)

\* C20: at most one auto-fetch interval is live, it is the one autoFetchTimer
\* records, and none is live while autoFetchEnabled is false, whatever the
\* order of toggleAutoFetch, visibility changes and the end of start-up.
C20_OneLiveInterval ==
  /\ Cardinality(intervals) <= 1
  /\ intervals = (IF autoFetchTimer = NoTimer THEN {} ELSE {autoFetchTimer})
  /\ intervals # {} => autoFetchEnabled
\* Auto-fetch was enabled during start-up, start-up has ended (arming the
\* interval again) and the page has come back from hidden: one interval.
C20_Witness ==
  /\ last.op = "visibility"
  /\ ~hidden
  /\ InFlight = 0
  /\ storeAutoFetch = "true"
  /\ intervals = {autoFetchTimer}

\* C21: while the page is hidden no auto-fetch interval is live
\* (autoFetchTimer is null), however visibility changes interleave with
\* start-up and with toggleAutoFetch.
C21_HiddenMeansNoTimer == hidden => (autoFetchTimer = NoTimer /\ intervals = {})

\* C22: a session that starts offline on a store holding a lastArticle shows
\* that article (initializeUI), and when init's initial fetch then fails,
\* ending start-up, the view is Displaying with the stored lastArticle as the
\* current article, not the Error view.
C22_OfflineStartShowsCached ==
  [][(/\ last.op = "bootOffline"
      /\ storeLastArticle.kind = "json"
      /\ last'.op = "failure"
      /\ last'.intent = "init")
     => /\ View(dom') = "Displaying"
        /\ currentArticle' = loadLastArticle(storeLastArticle')
        /\ currentArticle' \in Articles]_vars

\* C23: whenever an article is the current one, the favorite button is
\* favorited exactly when some favorite has the current article's pageId, and
\* the favorites count badge shows the number of favorites, after any
\* sequence of toggleFavorite, removeFavorite, openFavorite and article
\* displays.
C23_IndicatorsFollowState ==
  Shown => /\ favoriteBtn = (currentArticle.pageId \in IdSet(favorites))
           /\ favoritesCount = Len(favorites)
\* The current article was removed from the favorites list while another
\* favorite stays: the button is off and the badge shows one.
C23_Witness ==
  /\ last.op = "removeFavorite"
  /\ last.note = IdText(currentArticle.pageId)
  /\ Shown
  /\ ~favoriteBtn
  /\ favoritesCount = 1
  /\ last.busy = 0

====
